---- MODULE Spec2Model ----
(***************************************************************************)
(* Model of the flet control classes of this repository: the attribute     *)
(* store every property goes through, the property getters and setters of  *)
(* AlertDialog, AppBar, AutoComplete, Badge, BottomAppBar, Card,            *)
(* ConstrainedControl, CupertinoTextField and SafeArea, their               *)
(* before_update hooks and their _get_children methods; and the Flashlight *)
(* control with the remote calls its methods make.                         *)
(*                                                                         *)
(* Python values are records [t, c, v, l]: t is the Python type family,    *)
(* c the class (or, for a str, what the text spells), v a number and l a   *)
(* list of element ids.  Numbers are fixed point, in tenths: 1.0 is 10,    *)
(* 0.5 is 5, 200.0 is 2000.                                                *)
(***************************************************************************)
EXTENDS Integers, Sequences, FiniteSets, TLC

VARIABLES
    kind,          \* the class of the control under test
    attrs,         \* its attribute map: name -> value, absent names unset
    priv,          \* its private fields (self.__x), by mangled name
    handlers,      \* its event handlers, by event name
    childTag,      \* the "n" attribute of each child control
    childVisible,  \* the visible property of each child control
    touched,       \* the properties assigned since construction
    result,        \* the last call: what was called, with what, how it ended
    turned_on,     \* Flashlight.turned_on, by Flashlight instance
    torch,         \* the torch of the device each Flashlight drives: lit or not
    invoked,       \* the remote calls each Flashlight has made, in order
    inflight,      \* the coroutines suspended at their await
    reply,         \* the last completed Flashlight method, by instance
    options,       \* the keys of the suggestions the renderer was sent
    typed,         \* the text the user has typed into the AutoComplete
    shown          \* the suggestions the renderer displays: indices of options

ctlVars == <<kind, attrs, priv, handlers, childTag, childVisible, touched, result>>
rendererVars == <<options, typed, shown>>
flashVars == <<turned_on, torch, invoked, inflight, reply>>
vars == <<kind, attrs, priv, handlers, childTag, childVisible, touched, result,
          turned_on, torch, invoked, inflight, reply, options, typed, shown>>

(***************************************************************************)
(* Bounds                                                                  *)
(***************************************************************************)
\* how many distinct properties one behaviour assigns after construction
MaxProps == 1
\* longest list of actions handed to a control
MaxActions == 2
\* how many remote calls one Flashlight makes in a behaviour
MaxCalls == 3
\* how many coroutines of a Flashlight are suspended at once
MaxInflight == 2
\* longest key of a suggestion, and longest text the user types
MaxKeyLen == 2

\* the child controls a test hands to the slots of a parent
Children == {1, 2}

(***************************************************************************)
(* Python values                                                           *)
(***************************************************************************)
Val(t, c, v, l) == [t |-> t, c |-> c, v |-> v, l |-> l]

None == Val("none", "", 0, <<>>)
True == Val("bool", "", 1, <<>>)
False == Val("bool", "", 0, <<>>)
Num(n) == Val("num", "", n, <<>>)
\* the str spelling the number n, "0.5"
NumStr(n) == Val("str", "num", n, <<>>)
\* the str "true" (1) or "false" (0)
BoolStr(b) == Val("str", "bool", b, <<>>)
\* any other str: a colour, a label, the value of an enum member
Text(c, i) == Val("str", c, i, <<>>)
\* an instance of the value class c (TextStyle, Padding, OutlinedBorder ...)
Obj(c, i) == Val("obj", c, i, <<>>)
\* a member of the Enum class c
Enum(c, i) == Val("enum", c, i, <<>>)
\* a Control instance
Ctl(i) == Val("ctl", "Control", i, <<>>)
\* a callable
Fn(i) == Val("fn", "", i, <<>>)
\* a list; c names the class of its elements
List(c, l) == Val("list", c, 0, l)
\* the str holding the JSON document of a structured value of class x.c
Json(x) == Val("json", x.c, x.v, x.l)
\* isinstance(x, str)
IsStr(x) == x.t \in {"str", "json"}

\* bool(x) of Python
Truthy(x) ==
    CASE x.t = "none" -> FALSE
      [] x.t = "bool" -> x.v = 1
      [] x.t = "num" -> x.v # 0
      [] x.t = "list" -> x.l # <<>>
      [] OTHER -> TRUE

\* isinstance(x, c) for the value classes
IsInstance(x, c) == x.t = "obj" /\ x.c = c

Ok(x) == [exc |-> "ok", val |-> x]
Raised(e) == [exc |-> e, val |-> None]

(***************************************************************************)
(* Control: the attribute store (flet_core/control.py)                     *)
(***************************************************************************)
NoAttrs == [n \in {} |-> None]

\* Control._set_attr: stores the value, or clears the name when it is None
set_attr(a, name, value) ==
    IF value = None
    THEN [n \in DOMAIN a \ {name} |-> a[n]]
    ELSE [n \in DOMAIN a \cup {name} |-> IF n = name THEN value ELSE a[n]]

\* Control._get_attr: the stored value, coerced from str for bool/float/int,
\* or the default when the name is absent
get_attr(a, name, data_type, def_value) ==
    IF name \notin DOMAIN a THEN Ok(def_value)
    ELSE LET s == a[name] IN
         CASE data_type = "bool" /\ IsStr(s) ->
                  Ok(IF s.c = "bool" /\ s.v = 1 THEN True ELSE False)
           [] data_type \in {"float", "int"} /\ IsStr(s) ->
                  IF s.c = "num" THEN Ok(Num(s.v)) ELSE Raised("ValueError")
           [] OTHER -> Ok(s)

\* Control._convert_attr_json: json.dumps of the value, None staying None
convert_attr_json(value) ==
    CASE value = None -> None
      [] value.t = "num" -> NumStr(value.v)
      [] value.t = "bool" -> BoolStr(value.v)
      [] OTHER -> Json(value)

\* Control._set_attr_json
set_attr_json(a, name, value) == set_attr(a, name, convert_attr_json(value))

\* Control._set_enum_attr: the member's value, None clearing the attribute
set_enum_attr(a, name, value) ==
    set_attr(a, name, IF value.t = "enum" THEN Text(value.c, value.v) ELSE value)

(***************************************************************************)
(* Property descriptors.  A property is described by how its getter reads  *)
(* (get, attr, dt, def, gf) and how its setter writes (set, attr, sf, tr,  *)
(* chk); ty names the values its type hint admits.                         *)
(***************************************************************************)
Desc(prop, ty, get, set, attr, dt, def, gf, sf, tr, chk) ==
    [prop |-> prop, ty |-> ty, get |-> get, set |-> set, attr |-> attr,
     dt |-> dt, def |-> def, gf |-> gf, sf |-> sf, tr |-> tr, chk |-> chk]

\* getter `return self._get_attr(attr, data_type=dt, def_value=def)`,
\* setter `self._set_attr(attr, value)`
A(prop, ty, attr, dt, def) ==
    Desc(prop, ty, "attr", "attr", attr, dt, def, "", "", "", "")

\* the same, the setter asserting chk on the value first
AChk(prop, ty, attr, dt, def, chk) ==
    Desc(prop, ty, "attr", "attr", attr, dt, def, "", "", "", chk)

\* getter `return self.__f`, setter `self.__f = value`
P(prop, ty, f) == Desc(prop, ty, "priv", "priv", "", "", None, f, f, "", "")

\* getter `return self.__f`, setter `self.__f = value` followed by
\* `self._set_enum_attr(attr, value, E)` (or `_set_attr(attr, value.value ...)`)
E(prop, ty, f, attr) ==
    Desc(prop, ty, "priv", "enum", attr, "", None, f, f, "", "")

(***************************************************************************)
(* alert_dialog.py: every property goes through the attribute store        *)
(***************************************************************************)
AlertDialog_open == A("open", "bool", "open", "bool", False)
AlertDialog_modal == A("modal", "bool", "modal", "bool", False)
AlertDialog_title == A("title", "ctl", "title", "", None)
AlertDialog_content == A("content", "ctl", "content", "", None)
AlertDialog_actions == A("actions", "ctls", "actions", "", None)

AlertDialog_props ==
    { AlertDialog_open, AlertDialog_modal, AlertDialog_title,
      AlertDialog_content, AlertDialog_actions,
      A("bgcolor", "text", "bgcolor", "", None),
      A("shadow_color", "text", "shadowColor", "", None),
      A("surface_tint_color", "text", "surfaceTintColor", "", None),
      A("icon_color", "text", "iconColor", "", None),
      A("elevation", "num", "elevation", "float", None),
      A("actions_overflow_button_spacing", "num",
        "actionsOverflowButtonSpacing", "float", None),
      A("title_padding", "Padding", "titlePadding", "padding", None),
      A("content_padding", "Padding", "contentPadding", "padding", None),
      A("actions_padding", "Padding", "actionsPadding", "padding", None),
      A("actions_alignment", "MainAxisAlignment", "actionsAlignment", "", None),
      A("shape", "OutlinedBorder", "shape", "", None),
      A("inset_padding", "Padding", "insetPadding", "padding", None),
      A("icon_padding", "Padding", "iconPadding", "padding", None),
      A("action_button_padding", "Padding", "actionButtonPadding", "padding", None),
      A("alignment", "Alignment", "alignment", "", None),
      A("content_text_style", "TextStyle", "contentTextStyle", "", None),
      A("title_text_style", "TextStyle", "titleTextStyle", "", None),
      A("clip_behavior", "ClipBehavior", "clipBehavior", "", None),
      A("semantics_label", "text", "semanticsLabel", "", None),
      A("on_dismiss", "fn", "onDismiss", "", None) }

(***************************************************************************)
(* app_bar.py                                                              *)
(***************************************************************************)
AppBar_toolbar_opacity ==
    AChk("toolbar_opacity", "numchk", "toolbarOpacity", "float", Num(10),
         "toolbar_opacity")
AppBar_automatically_imply_leading ==
    A("automatically_imply_leading", "bool", "automaticallyImplyLeading",
      "bool", True)
AppBar_leading == P("leading", "ctl", "_AppBar__leading")
AppBar_title == P("title", "ctl", "_AppBar__title")
AppBar_actions == P("actions", "ctls", "_AppBar__actions")
AppBar_title_text_style ==
    P("title_text_style", "TextStyle", "_AppBar__title_text_style")
AppBar_toolbar_text_style ==
    P("toolbar_text_style", "TextStyle", "_AppBar__toolbar_text_style")
AppBar_shape == P("shape", "OutlinedBorder", "_AppBar__shape")

AppBar_props ==
    { AppBar_toolbar_opacity, AppBar_automatically_imply_leading,
      AppBar_leading, AppBar_title, AppBar_actions,
      AppBar_title_text_style, AppBar_toolbar_text_style, AppBar_shape,
      A("leading_width", "num", "leadingWidth", "", None),
      A("title_spacing", "num", "titleSpacing", "float", None),
      A("center_title", "bool", "centerTitle", "bool", False),
      A("toolbar_height", "num", "toolbarHeight", "float", None),
      A("color", "text", "color", "", None),
      A("bgcolor", "text", "bgcolor", "", None),
      A("elevation", "num", "elevation", "float", None),
      A("elevation_on_scroll", "num", "elevationOnScroll", "float", None),
      A("shadow_color", "text", "shadowColor", "", None),
      A("surface_tint_color", "text", "surfaceTintColor", "", None),
      A("clip_behavior", "ClipBehavior", "clipBehavior", "", None),
      A("force_material_transparency", "bool", "forceMaterialTransparency",
        "bool", None),
      A("is_secondary", "bool", "isSecondary", "bool", None),
      A("exclude_header_semantics", "bool", "excludeHeaderSemantics",
        "bool", None) }

(***************************************************************************)
(* auto_complete.py                                                        *)
(***************************************************************************)
\* read-only: a getter and no setter
\* selected_index as it would be had it a setter
AutoComplete_selected_index_Writable ==
    A("selected_index", "num", "selectedIndex", "int", None)

\* a getter and no setter
AutoComplete_selected_index ==
    Desc("selected_index", "num", "attr", "ro", "selectedIndex", "int", None,
         "", "", "", "")
AutoComplete_suggestions_max_height ==
    AChk("suggestions_max_height", "numchk", "suggestionsMaxHeight", "float",
         Num(2000), "nonneg")
\* setter `self.__suggestions = value or []`
AutoComplete_suggestions ==
    Desc("suggestions", "suggestions", "priv", "priv", "", "", None,
         "_AutoComplete__suggestions", "_AutoComplete__suggestions",
         "or_empty", "")
\* getter `_get_event_handler("select")`, setter `self.__on_select.subscribe`
AutoComplete_on_select ==
    Desc("on_select", "fn", "event", "subscribe", "", "", None,
         "select", "_AutoComplete__on_select", "", "")

AutoComplete_props ==
    { AutoComplete_selected_index, AutoComplete_suggestions_max_height,
      AutoComplete_suggestions, AutoComplete_on_select }

(***************************************************************************)
(* badge.py                                                                *)
(***************************************************************************)
Badge_text == A("text", "text", "labelText", "", None)
\* the getter without its def_value
Badge_label_visible_NoDefault ==
    A("label_visible", "bool", "isLabelVisible", "bool", None)

Badge_label_visible ==
    A("label_visible", "bool", "isLabelVisible", "bool", True)
Badge_content == P("content", "ctl", "_Badge__content")
\* padding as it would be did its getter read the attribute map
Badge_padding_ReadsAttribute ==
    Desc("padding", "Padding", "attr", "priv", "padding", "", None,
         "_Badge__padding", "_Badge__padding", "", "")

Badge_padding == P("padding", "Padding", "_Badge__padding")
Badge_text_style == P("text_style", "TextStyle", "_Badge__text_style")

Badge_props ==
    { Badge_text, Badge_label_visible, Badge_content, Badge_padding,
      Badge_text_style,
      P("alignment", "Alignment", "_Badge__alignment"),
      P("offset", "Offset", "_Badge__offset"),
      A("bgcolor", "text", "bgColor", "", None),
      A("large_size", "num", "largeSize", "", None),
      A("small_size", "num", "smallSize", "", None),
      A("text_color", "text", "textColor", "", None) }

(***************************************************************************)
(* constrained_control.py                                                  *)
(***************************************************************************)
\* setter `_add_event_handler("animation_end", handler)` followed by
\* `_set_attr("onAnimationEnd", True if handler is not None else None)`
\* on_animation_end as it would be did its setter only write the attribute
ConstrainedControl_on_animation_end_AttrOnly ==
    Desc("on_animation_end", "fn", "event", "attr", "onAnimationEnd", "",
         None, "animation_end", "animation_end", "", "")

ConstrainedControl_on_animation_end ==
    Desc("on_animation_end", "fn", "event", "event", "onAnimationEnd", "",
         None, "animation_end", "animation_end", "", "")

\* left, top, right, bottom: the four a SafeArea overrides
ConstrainedControl_insets ==
    { A("left", "num", "left", "", None),
      A("top", "num", "top", "", None),
      A("right", "num", "right", "", None),
      A("bottom", "num", "bottom", "", None) }

ConstrainedControl_rest ==
    { ConstrainedControl_on_animation_end,
      A("key", "text", "key", "", None),
      A("width", "num", "width", "", None),
      A("height", "num", "height", "", None),
      A("aspect_ratio", "num", "aspectRatio", "", None),
      P("rotate", "Rotate", "_ConstrainedControl__rotate"),
      P("scale", "Scale", "_ConstrainedControl__scale"),
      P("offset", "Offset", "_ConstrainedControl__offset"),
      P("animate_opacity", "Animation", "_ConstrainedControl__animate_opacity"),
      P("animate_size", "Animation", "_ConstrainedControl__animate_size"),
      P("animate_position", "Animation", "_ConstrainedControl__animate_position"),
      P("animate_rotation", "Animation", "_ConstrainedControl__animate_rotation"),
      P("animate_scale", "Animation", "_ConstrainedControl__animate_scale"),
      P("animate_offset", "Animation", "_ConstrainedControl__animate_offset") }

ConstrainedControl_props == ConstrainedControl_insets \cup ConstrainedControl_rest

(***************************************************************************)
(* bottom_app_bar.py                                                       *)
(***************************************************************************)
BottomAppBar_elevation ==
    AChk("elevation", "numchk", "elevation", "", None, "nonneg")
BottomAppBar_content == P("content", "ctl", "_BottomAppBar__content")
BottomAppBar_padding == P("padding", "Padding", "_BottomAppBar__padding")

BottomAppBar_props ==
    { BottomAppBar_elevation, BottomAppBar_content, BottomAppBar_padding,
      A("surface_tint_color", "text", "surfaceTintColor", "", None),
      A("bgcolor", "text", "bgcolor", "", None),
      A("shadow_color", "text", "shadowColor", "", None),
      E("shape", "NotchShape", "_BottomAppBar__shape", "shape"),
      E("clip_behavior", "ClipBehavior", "_BottomAppBar__clip_behavior",
        "clipBehavior"),
      A("notch_margin", "num", "notchMargin", "", None) }
    \cup ConstrainedControl_props

(***************************************************************************)
(* card.py                                                                 *)
(***************************************************************************)
Card_elevation == A("elevation", "numchk", "elevation", "", None)
Card_content == P("content", "ctl", "_Card__content")
Card_margin == P("margin", "Margin", "_Card__margin")
Card_shape == P("shape", "OutlinedBorder", "_Card__shape")

Card_props ==
    { Card_elevation, Card_content, Card_margin, Card_shape,
      A("color", "text", "color", "", None),
      A("shadow_color", "text", "shadowColor", "", None),
      A("surface_tint_color", "text", "surfaceTintColor", "", None),
      E("clip_behavior", "ClipBehavior", "_Card__clip_behavior", "clipBehavior"),
      A("is_semantic_container", "bool", "isSemanticContainer", "bool", True),
      A("show_border_on_foreground", "bool", "showBorderOnForeground",
        "bool", True),
      E("variant", "CardVariant", "_Card__variant", "variant") }
    \cup ConstrainedControl_props

(***************************************************************************)
(* cupertino_textfield.py                                                  *)
(***************************************************************************)
\* the getter returns self.__hint_style, the setter assigns
\* self.__placeholder_style
CupertinoTextField_placeholder_style ==
    Desc("placeholder_style", "TextStyle", "priv", "priv", "", "", None,
         "_CupertinoTextField__hint_style",
         "_CupertinoTextField__placeholder_style", "", "")
\* setter `self.__shadow = value if value is not None else []`
CupertinoTextField_shadow ==
    Desc("shadow", "BoxShadow", "priv", "priv", "", "", None,
         "_CupertinoTextField__shadow", "_CupertinoTextField__shadow",
         "none_to_empty", "")
CupertinoTextField_gradient ==
    P("gradient", "Gradient", "_CupertinoTextField__gradient")
CupertinoTextField_blend_mode ==
    E("blend_mode", "BlendMode", "_CupertinoTextField__blend_mode", "blendMode")

CupertinoTextField_props ==
    { CupertinoTextField_placeholder_style, CupertinoTextField_shadow,
      CupertinoTextField_gradient, CupertinoTextField_blend_mode,
      A("placeholder_text", "text", "placeholderText", "", None),
      E("suffix_visibility_mode", "VisibilityMode",
        "_CupertinoTextField__suffix_visibility_mode", "suffixVisibilityMode"),
      E("prefix_visibility_mode", "VisibilityMode",
        "_CupertinoTextField__prefix_visibility_mode", "prefixVisibilityMode") }

(***************************************************************************)
(* safe_area.py                                                            *)
(***************************************************************************)
SafeArea_insets ==
    { A("left", "bool", "left", "bool", True),
      A("top", "bool", "top", "bool", True),
      A("right", "bool", "right", "bool", True),
      A("bottom", "bool", "bottom", "bool", True) }
\* content: Control, a required parameter
SafeArea_content == P("content", "ctl!", "_SafeArea__content")

SafeArea_props ==
    SafeArea_insets \cup
    { SafeArea_content,
      A("maintain_bottom_view_padding", "bool", "maintainBottomViewPadding",
        "bool", False),
      P("minimum", "Padding", "_SafeArea__minimum"),
      P("minimum_padding", "Padding", "_SafeArea__minimum_padding") }
    \cup ConstrainedControl_rest

Kinds ==
    { "AlertDialog", "AppBar", "AutoComplete", "Badge", "BottomAppBar", "Card",
      "ConstrainedControl", "CupertinoTextField", "SafeArea" }

\* the properties of a class, inherited ones included
Props(k) ==
    CASE k = "AlertDialog" -> AlertDialog_props
      [] k = "AppBar" -> AppBar_props
      [] k = "AutoComplete" -> AutoComplete_props
      [] k = "Badge" -> Badge_props
      [] k = "BottomAppBar" -> BottomAppBar_props
      [] k = "Card" -> Card_props
      [] k = "ConstrainedControl" -> ConstrainedControl_props
      [] k = "CupertinoTextField" -> CupertinoTextField_props
      [] k = "SafeArea" -> SafeArea_props

(***************************************************************************)
(* The values a test assigns to a property, by its type hint               *)
(***************************************************************************)
RECURSIVE SeqsUpTo(_, _)
SeqsUpTo(S, n) ==
    IF n = 0 THEN {<<>>}
    ELSE LET shorter == SeqsUpTo(S, n - 1)
         IN shorter \cup {Append(q, x) : q \in shorter, x \in S}

\* an AutoCompleteSuggestion by what it carries: 0 neither key nor value,
\* 1 a key only, 2 a value only, 3 both
Suggestions == {0, 1, 2, 3}

NumberOrObject == {"Padding", "Margin", "Rotate", "Scale", "Offset", "Animation"}
ObjectOnly == {"TextStyle", "OutlinedBorder", "Alignment", "Gradient"}
EnumClasses ==
    {"MainAxisAlignment", "ClipBehavior", "NotchShape", "CardVariant",
     "BlendMode", "VisibilityMode"}

Dom(ty) ==
    CASE ty = "bool" -> {None, True, False}
      [] ty = "num" -> {None, Num(5), NumStr(5)}
      [] ty = "numchk" -> {None, Num(-10), Num(0), Num(5), Num(10), Num(20)}
      [] ty = "text" -> {None, Text("", 1), Text("", 2)}
      [] ty = "fn" -> {None, Fn(1), Fn(2)}
      [] ty = "ctl" -> {None} \cup {Ctl(i) : i \in Children}
      [] ty = "ctl!" -> {Ctl(i) : i \in Children}
      [] ty = "ctls" ->
             {None} \cup {List("Control", q) : q \in SeqsUpTo(Children, MaxActions)}
      [] ty = "suggestions" ->
             {None} \cup {List("AutoCompleteSuggestion", q) :
                             q \in SeqsUpTo(Suggestions, 2)}
      [] ty = "BoxShadow" ->
             {None, Obj("BoxShadow", 1), List("BoxShadow", <<>>),
              List("BoxShadow", <<1>>)}
      [] ty \in NumberOrObject -> {None, Num(5), Obj(ty, 1)}
      [] ty \in ObjectOnly -> {None, Obj(ty, 1), Obj(ty, 2)}
      [] ty \in EnumClasses -> {None, Enum(ty, 1), Enum(ty, 2)}

(***************************************************************************)
(* Setters and getters                                                     *)
(***************************************************************************)
\* the assert as it would read were only negative values refused
AppBar_toolbar_opacity_assert_NonNegative(value) ==
    value = None \/ value.v >= 0

\* app_bar.py: assert value is None or (0 >= value >= 1)
AppBar_toolbar_opacity_assert(value) ==
    value = None \/ (0 >= value.v /\ value.v >= 10)

\* the assert as it would be did it refuse 0 as well
NonNegative_assert_Positive(value) == value = None \/ value.v > 0

\* assert value is None or value >= 0
NonNegative_assert(value) == value = None \/ value.v >= 0

Check(chk, value) ==
    CASE chk = "toolbar_opacity" -> AppBar_toolbar_opacity_assert(value)
      [] chk = "nonneg" -> NonNegative_assert(value)
      [] OTHER -> TRUE

\* what the setter stores for the value it is given
Stored(tr, ty, value) ==
    CASE tr = "or_empty" -> IF Truthy(value) THEN value ELSE List("AutoCompleteSuggestion", <<>>)
      [] tr = "none_to_empty" -> IF value # None THEN value ELSE List("BoxShadow", <<>>)
      [] OTHER -> value

\* self.__f = value
set_field(pv, f, value) ==
    [n \in DOMAIN pv \cup {f} |-> IF n = f THEN value ELSE pv[n]]

\* Control._add_event_handler
add_event_handler(h, name, handler) == set_field(h, name, handler)

\* Control._get_event_handler
get_event_handler(h, name) == IF name \in DOMAIN h THEN h[name] ELSE None

\* EventHandler.subscribe on the EventHandler held in self.__f
subscribe(pv, f, handler) == set_field(pv, f, Val("obj", "EventHandler", handler.v, <<>>))

Obj3(a, pv, h, exc) == [attrs |-> a, priv |-> pv, handlers |-> h, exc |-> exc]

\* the setter writing into the map itself, whatever the value
SetPlain_Raw(a, d, value) == set_field(a, d.attr, value)

\* the body of an attribute-backed setter: self._set_attr(attr, value)
SetPlain(a, d, value) == set_attr(a, d.attr, value)

\* the setter of property d called with value, on the object st
ApplySet(st, d, value) ==
    IF ~Check(d.chk, value) THEN Obj3(st.attrs, st.priv, st.handlers, "AssertionError")
    ELSE CASE d.set = "attr" ->
                  Obj3(SetPlain(st.attrs, d, value), st.priv, st.handlers, "ok")
           [] d.set = "priv" ->
                  Obj3(st.attrs, set_field(st.priv, d.sf, Stored(d.tr, d.ty, value)),
                       st.handlers, "ok")
           [] d.set = "enum" ->
                  Obj3(set_enum_attr(st.attrs, d.attr, value),
                       set_field(st.priv, d.sf, value), st.handlers, "ok")
           [] d.set = "event" ->
                  Obj3(set_attr(st.attrs, d.attr, IF value # None THEN True ELSE None),
                       st.priv, add_event_handler(st.handlers, d.sf, value), "ok")
           [] d.set = "subscribe" ->
                  Obj3(st.attrs, subscribe(st.priv, d.sf, value), st.handlers, "ok")
           [] d.set = "ro" ->
                  Obj3(st.attrs, st.priv, st.handlers, "AttributeError")

\* the getter of property d read on the object (a, pv, h)
Get(a, pv, h, d) ==
    CASE d.get = "attr" -> get_attr(a, d.attr, d.dt, d.def)
      [] d.get = "priv" ->
             IF d.gf \in DOMAIN pv THEN Ok(pv[d.gf]) ELSE Raised("AttributeError")
      [] d.get = "event" -> Ok(get_event_handler(h, d.gf))

(***************************************************************************)
(* Constructors: __init__ calls the setter of every property with its      *)
(* argument, None unless the caller passes it                              *)
(***************************************************************************)
\* the default of a constructor parameter
CtorDefault(d) ==
    IF d.prop = "blend_mode" THEN Enum("BlendMode", 0) ELSE None

\* the object before the setters run: AutoComplete.__init__ creates its
\* EventHandler and registers it for "select" first
Blank(k) ==
    IF k = "AutoComplete"
    THEN Obj3(NoAttrs, subscribe(NoAttrs, "_AutoComplete__on_select", None),
              add_event_handler(NoAttrs, "select", Fn(0)), "ok")
    ELSE Obj3(NoAttrs, NoAttrs, NoAttrs, "ok")

\* the maps of ms merged; the setters of one class write disjoint names
Merge(ms) ==
    [n \in UNION {DOMAIN m : m \in ms} |->
        (CHOOSE m \in ms : n \in DOMAIN m)[n]]

\* what the setter of d leaves on the blank object, called with its argument
CtorSet(k, d, args) ==
    ApplySet(Blank(k), d,
             IF d.prop \in DOMAIN args THEN args[d.prop] ELSE CtorDefault(d))

Construct(k, args) ==
    LET ds == {d \in Props(k) : d.set # "ro"}
        failed == {d \in ds : CtorSet(k, d, args).exc # "ok"}
    IN Obj3(Merge({CtorSet(k, d, args).attrs : d \in ds}),
            Merge({CtorSet(k, d, args).priv : d \in ds}),
            Merge({CtorSet(k, d, args).handlers : d \in ds} \cup {Blank(k).handlers}),
            IF failed = {} THEN "ok"
            ELSE CtorSet(k, CHOOSE d \in failed : TRUE, args).exc)

(***************************************************************************)
(* before_update: the structured values are flattened into the attribute   *)
(* map.  A hook returns the map as it stands when the hook ends, an        *)
(* exception leaving what was written before it.                           *)
(***************************************************************************)
\* self._set_attr_json(attr, self.__f)
J(attr, f) == [attr |-> attr, f |-> f, cls |-> ""]
\* if isinstance(self.__f, cls): self._set_attr_json(attr, self.__f)
JIf(attr, f, cls) == [attr |-> attr, f |-> f, cls |-> cls]

Done(a) == [exc |-> "ok", attrs |-> a]
Fail(e, a) == [exc |-> e, attrs |-> a]

RECURSIVE Flatten(_, _, _)
Flatten(steps, a, pv) ==
    IF steps = <<>> THEN Done(a)
    ELSE LET s == Head(steps) IN
         IF s.f \notin DOMAIN pv THEN Fail("AttributeError", a)
         ELSE IF s.cls # "" /\ ~IsInstance(pv[s.f], s.cls)
              THEN Flatten(Tail(steps), a, pv)
              ELSE Flatten(Tail(steps), set_attr_json(a, s.attr, pv[s.f]), pv)

ConstrainedControl_before_update(a, pv) ==
    Flatten(<< J("rotate", "_ConstrainedControl__rotate"),
               J("scale", "_ConstrainedControl__scale"),
               J("offset", "_ConstrainedControl__offset"),
               J("animateOpacity", "_ConstrainedControl__animate_opacity"),
               J("animateSize", "_ConstrainedControl__animate_size"),
               J("animatePosition", "_ConstrainedControl__animate_position"),
               J("animateRotation", "_ConstrainedControl__animate_rotation"),
               J("animateScale", "_ConstrainedControl__animate_scale"),
               J("animateOffset", "_ConstrainedControl__animate_offset") >>,
            a, pv)

\* assert self.__title or self.__content or self.__actions, evaluated left
\* to right, stopping at the first truthy operand
AlertDialog_assert(pv) ==
    IF "_AlertDialog__title" \notin DOMAIN pv THEN "AttributeError"
    ELSE IF Truthy(pv["_AlertDialog__title"]) THEN "ok"
    ELSE IF "_AlertDialog__content" \notin DOMAIN pv THEN "AttributeError"
    ELSE IF Truthy(pv["_AlertDialog__content"]) THEN "ok"
    ELSE IF "_AlertDialog__actions" \notin DOMAIN pv THEN "AttributeError"
    ELSE IF Truthy(pv["_AlertDialog__actions"]) THEN "ok"
    ELSE "AssertionError"

AlertDialog_before_update(a, pv) ==
    IF AlertDialog_assert(pv) # "ok" THEN Fail(AlertDialog_assert(pv), a)
    ELSE Flatten(<< J("actionsPadding", "_AlertDialog__actions_padding"),
                    J("contentPadding", "_AlertDialog__content_padding"),
                    J("titlePadding", "_AlertDialog__title_padding"),
                    J("shape", "_AlertDialog__shape"),
                    J("insetPadding", "_AlertDialog__inset_padding"),
                    J("iconPadding", "_AlertDialog__icon_padding"),
                    J("actionButtonPadding", "_AlertDialog__action_button_padding"),
                    J("alignment", "_AlertDialog__alignment"),
                    JIf("contentTextStyle", "_AlertDialog__content_text_style",
                        "TextStyle"),
                    JIf("titleTextStyle", "_AlertDialog__title_text_style",
                        "TextStyle") >>,
                 a, pv)

AppBar_before_update(a, pv) ==
    Flatten(<< JIf("titleTextStyle", "_AppBar__title_text_style", "TextStyle"),
               JIf("toolbarTextStyle", "_AppBar__toolbar_text_style", "TextStyle"),
               JIf("shape", "_AppBar__shape", "OutlinedBorder") >>,
            a, pv)

AutoComplete_before_update(a, pv) ==
    Flatten(<< J("suggestions", "_AutoComplete__suggestions") >>, a, pv)

Badge_before_update(a, pv) ==
    Flatten(<< J("offset", "_Badge__offset"),
               J("alignment", "_Badge__alignment"),
               J("padding", "_Badge__padding"),
               J("textStyle", "_Badge__text_style") >>,
            a, pv)

BottomAppBar_before_update(a, pv) ==
    LET sup == ConstrainedControl_before_update(a, pv) IN
    IF sup.exc # "ok" THEN sup
    ELSE Flatten(<< J("padding", "_BottomAppBar__padding") >>, sup.attrs, pv)

\* before_update as it would be did it clear a margin attribute it finds
Card_before_update_Alternating(a, pv) ==
    IF "margin" \in DOMAIN a THEN Done(set_attr(a, "margin", None))
    ELSE Flatten(<< J("margin", "_Card__margin"),
                    J("shape", "_Card__shape") >>, a, pv)

Card_before_update(a, pv) ==
    LET sup == ConstrainedControl_before_update(a, pv) IN
    IF sup.exc # "ok" THEN sup
    ELSE Flatten(<< J("margin", "_Card__margin"),
                    J("shape", "_Card__shape") >>, sup.attrs, pv)

\* before_update as it would be without its assert
SafeArea_assert_Missing(pv, vis) == "ok"

\* assert self.__content.visible
SafeArea_assert(pv, vis) ==
    IF "_SafeArea__content" \notin DOMAIN pv THEN "AttributeError"
    ELSE IF pv["_SafeArea__content"].t # "ctl" THEN "AttributeError"
    ELSE IF vis[pv["_SafeArea__content"].v] THEN "ok"
    ELSE "AssertionError"

SafeArea_before_update(a, pv, vis) ==
    LET sup == ConstrainedControl_before_update(a, pv) IN
    IF sup.exc # "ok" THEN sup
    ELSE IF SafeArea_assert(pv, vis) # "ok"
         THEN Fail(SafeArea_assert(pv, vis), sup.attrs)
         ELSE Flatten(<< J("minimum", "_SafeArea__minimum"),
                         J("minimumPadding", "_SafeArea__minimum_padding") >>,
                      sup.attrs, pv)

HasBeforeUpdate ==
    { "AlertDialog", "AppBar", "AutoComplete", "Badge", "BottomAppBar", "Card",
      "ConstrainedControl", "SafeArea" }

before_update(k, a, pv, vis) ==
    CASE k = "AlertDialog" -> AlertDialog_before_update(a, pv)
      [] k = "AppBar" -> AppBar_before_update(a, pv)
      [] k = "AutoComplete" -> AutoComplete_before_update(a, pv)
      [] k = "Badge" -> Badge_before_update(a, pv)
      [] k = "BottomAppBar" -> BottomAppBar_before_update(a, pv)
      [] k = "Card" -> Card_before_update(a, pv)
      [] k = "ConstrainedControl" -> ConstrainedControl_before_update(a, pv)
      [] k = "SafeArea" -> SafeArea_before_update(a, pv, vis)

\* self._set_attr_json("shadow", self.__shadow if self.__shadow else None)
CupertinoTextField_shadow_json(a, pv) ==
    IF "_CupertinoTextField__shadow" \notin DOMAIN pv THEN Fail("AttributeError", a)
    ELSE Done(set_attr_json(a, "shadow",
                  IF Truthy(pv["_CupertinoTextField__shadow"])
                  THEN pv["_CupertinoTextField__shadow"] ELSE None))

\* the hook as it would be did it flatten nothing
CupertinoTextField_before_build_command_Nothing(a, pv) == Done(a)

CupertinoTextField_before_build_command(a, pv) ==
    LET g == Flatten(<< J("gradient", "_CupertinoTextField__gradient") >>, a, pv) IN
    IF g.exc # "ok" THEN g
    ELSE LET sh == CupertinoTextField_shadow_json(g.attrs, pv) IN
         IF sh.exc # "ok" THEN sh
         ELSE Flatten(<< J("placeholderStyle",
                            "_CupertinoTextField__placeholder_style") >>,
                      sh.attrs, pv)

(***************************************************************************)
(* _get_children: the non-empty slots in order, each child tagged with the *)
(* role of its slot.  ret is the returned list (child ids), tags the "n"   *)
(* attributes as the call leaves them; nothing is returned on an exception.*)
(***************************************************************************)
Start(tags) == [exc |-> "ok", ret |-> <<>>, tags |-> tags]
Throw(acc, e) == [exc |-> e, ret |-> <<>>, tags |-> acc.tags]

\* `if <test on self.__f>: self.__f._set_attr_internal("n", tag);
\*  children.append(self.__f)`
TagSlot(acc, pv, f, tag, test) ==
    IF acc.exc # "ok" THEN acc
    ELSE IF f \notin DOMAIN pv THEN Throw(acc, "AttributeError")
    ELSE IF test = "truthy" /\ ~Truthy(pv[f]) THEN acc
    ELSE IF test = "not_none" /\ pv[f] = None THEN acc
    ELSE IF pv[f].t # "ctl" THEN Throw(acc, "AttributeError")
    ELSE [exc |-> "ok", ret |-> Append(acc.ret, pv[f].v),
          tags |-> [acc.tags EXCEPT ![pv[f].v] = tag]]

\* `for action in self.__f: action._set_attr_internal("n", tag);
\*  children.append(action)`
TagList(acc, pv, f, tag) ==
    IF acc.exc # "ok" THEN acc
    ELSE IF f \notin DOMAIN pv THEN Throw(acc, "AttributeError")
    ELSE IF pv[f].t # "list" THEN Throw(acc, "TypeError")
    ELSE [exc |-> "ok", ret |-> acc.ret \o pv[f].l,
          tags |-> [c \in DOMAIN acc.tags |->
                       IF \E i \in 1..Len(pv[f].l) : pv[f].l[i] = c
                       THEN tag ELSE acc.tags[c]]]

AlertDialog_get_children(pv, tags) ==
    TagList(
        TagSlot(
            TagSlot(
                TagSlot(Start(tags), pv, "_AlertDialog__title", "title", "truthy"),
                pv, "_AlertDialog__icon", "icon", "truthy"),
            pv, "_AlertDialog__content", "content", "truthy"),
        pv, "_AlertDialog__actions", "action")

AppBar_get_children(pv, tags) ==
    TagList(
        TagSlot(
            TagSlot(Start(tags), pv, "_AppBar__leading", "leading", "truthy"),
            pv, "_AppBar__title", "title", "truthy"),
        pv, "_AppBar__actions", "action")

\* _get_children as it would be did it return no child
Badge_get_children_Empty(pv, tags) == Start(tags)

Badge_get_children(pv, tags) ==
    TagSlot(Start(tags), pv, "_Badge__content", "content", "not_none")

BottomAppBar_get_children(pv, tags) ==
    TagSlot(Start(tags), pv, "_BottomAppBar__content", "content", "not_none")

Card_get_children(pv, tags) ==
    TagSlot(Start(tags), pv, "_Card__content", "content", "not_none")

SafeArea_get_children(pv, tags) ==
    TagSlot(Start(tags), pv, "_SafeArea__content", "content", "always")

Composite == {"AlertDialog", "AppBar", "Badge", "BottomAppBar", "Card", "SafeArea"}

get_children(k, pv, tags) ==
    CASE k = "AlertDialog" -> AlertDialog_get_children(pv, tags)
      [] k = "AppBar" -> AppBar_get_children(pv, tags)
      [] k = "Badge" -> Badge_get_children(pv, tags)
      [] k = "BottomAppBar" -> BottomAppBar_get_children(pv, tags)
      [] k = "Card" -> Card_get_children(pv, tags)
      [] k = "SafeArea" -> SafeArea_get_children(pv, tags)

(***************************************************************************)
(* Flashlight (flet/core/flashlight.py).  Each public method makes one     *)
(* remote call and hands its result sr to _toggle_state.  The blocking     *)
(* methods are given sr as an argument; an asynchronous method is split at *)
(* its await: the part before it makes the call and leaves a suspended     *)
(* coroutine, the part after it runs when the result arrives.              *)
(***************************************************************************)
Flashlights == {1, 2}

\* the str "1", the result of a remote call that succeeded
One == Text("1", 0)
\* what a remote call can return: "1", another str, "" or None (a timeout)
RemoteResults == {One, Text("0", 0), Text("", 0), None}
\* the wait_timeout a caller passes: None or 5 (the default)
WaitTimeouts == {None, Num(50)}

\* Control.invoke_method / invoke_method_async: the remote call they send
invoke_method(name, wait_for_result, wait_timeout) ==
    [name |-> name, wait_for_result |-> wait_for_result,
     wait_timeout |-> wait_timeout]

\* _toggle_state as it would be did it not look at sr
toggle_state_Always(t, sr, on) == [turned_on |-> on, ret |-> on]

\* self.turned_on = on if ("1" == sr) else self.turned_on
\* return self.turned_on
toggle_state(t, sr, on) ==
    LET new == IF One = sr THEN on ELSE t
    IN [turned_on |-> new, ret |-> new]

\* a method run to its end: the call it sent, turned_on and the value returned
Ran(sent, out) == [sent |-> sent, turned_on |-> out.turned_on, ret |-> out.ret]

turn_on(t, wait_timeout, sr) ==
    Ran(invoke_method("on", TRUE, wait_timeout), toggle_state(t, sr, TRUE))

\* turn_off as it would be did it leave `on` to its default
turn_off_DefaultOn(t, wait_timeout, sr) ==
    Ran(invoke_method("off", TRUE, wait_timeout), toggle_state(t, sr, TRUE))

turn_off(t, wait_timeout, sr) ==
    Ran(invoke_method("off", TRUE, wait_timeout), toggle_state(t, sr, FALSE))

\* toggle as it would be did it not look at turned_on
toggle_AlwaysOn(t, wait_timeout, sr) == turn_on(t, wait_timeout, sr)

\* _func = self.turn_off if self.turned_on else self.turn_on
toggle(t, wait_timeout, sr) ==
    IF t THEN turn_off(t, wait_timeout, sr) ELSE turn_on(t, wait_timeout, sr)

\* a coroutine suspended at `sr = await self.invoke_method_async(...)`:
\* the method the caller awaits, the call sent, and the `on` argument of the
\* _toggle_state call that follows the await
Suspended(op, sent, on) == [op |-> op, sent |-> sent, on |-> on]

turn_on_async(op, wait_timeout) ==
    Suspended(op, invoke_method("on", TRUE, wait_timeout), TRUE)

turn_off_async(op, wait_timeout) ==
    Suspended(op, invoke_method("off", TRUE, wait_timeout), FALSE)

\* toggle_async as it would be did it not look at turned_on
toggle_async_AlwaysOn(t, wait_timeout) ==
    turn_on_async("toggle_async", wait_timeout)

\* if self.turned_on: return await self.turn_off_async(wait_timeout)
\* return await self.turn_on_async(wait_timeout)
toggle_async(t, wait_timeout) ==
    IF t THEN turn_off_async("toggle_async", wait_timeout)
    ELSE turn_on_async("toggle_async", wait_timeout)

\* the await returns sr: return self._toggle_state(sr[, False])
resume(co, t, sr) == Ran(co.sent, toggle_state(t, sr, co.on))

\* the device answering a remote call: "1" once it has carried the command
\* out, another str when it has not; on a timeout (None) it may have carried
\* it out or not
Answers(name, lit) ==
    {[sr |-> One, torch |-> (name = "on")]}
        \cup {[sr |-> sr, torch |-> lit] : sr \in RemoteResults \ {One}}
        \cup {[sr |-> None, torch |-> (name = "on")]}

\* a completed method as reply records it; n counts the completed methods,
\* one names the most recent remote call that returned "1" ("" when none has)
Reply(op, sr, ret, n, one) ==
    [op |-> op, sr |-> sr, ret |-> ret, n |-> n, one |-> one]

\* the most recent remote call that returned "1", the call sent having
\* returned sr
LastOne(before, sent, sr) == IF sr = One THEN sent.name ELSE before.one

\* no suggestion sent to the renderer, nothing typed, nothing displayed
Renderer_init ==
    /\ options = <<>>
    /\ typed = <<>>
    /\ shown = <<>>

\* Flashlight.__init__: self.turned_on = False
Flashlight_init ==
    /\ turned_on = [f \in Flashlights |-> FALSE]
    /\ torch = [f \in Flashlights |-> FALSE]
    /\ invoked = [f \in Flashlights |-> <<>>]
    /\ inflight = <<>>
    /\ reply = [f \in Flashlights |-> Reply("init", None, FALSE, 0, "")]

(***************************************************************************)
(* The state machine                                                       *)
(***************************************************************************)
\* was: the property held a value other than None when the setter was called
Call(op, prop, arg, was, exc, ret) ==
    [op |-> op, prop |-> prop, arg |-> arg, was |-> was, exc |-> exc, ret |-> ret]

HeldBefore(d) ==
    CASE d.set \in {"attr", "enum", "event"} -> d.attr \in DOMAIN attrs
      [] d.set = "priv" -> d.sf \in DOMAIN priv /\ priv[d.sf] # None
      [] OTHER -> FALSE

\* the child slots of a class
SlotTypes == {"ctl", "ctl!", "ctls"}
Slots(k) == {d \in Props(k) : d.ty \in SlotTypes}

\* the arguments a constructor cannot do without: SafeArea(content)
RequiredArgs(k) ==
    IF k = "SafeArea" THEN {[n \in {"content"} |-> Ctl(c)] : c \in Children}
    ELSE {NoAttrs}

Constructed(k, args) ==
    LET o == Construct(k, args) IN
    /\ kind = k
    /\ attrs = o.attrs
    /\ priv = o.priv
    /\ handlers = o.handlers
    /\ childTag = [c \in Children |-> ""]
    /\ childVisible = [c \in Children |-> TRUE]
    /\ touched = {}
    /\ result = Call("init", "", None, FALSE, o.exc, <<>>)
    /\ Flashlight_init
    /\ Renderer_init

\* a control of any class, built with the defaults of its constructor
Init == \E k \in Kinds : \E args \in RequiredArgs(k) : Constructed(k, args)

\* control.<d.prop> = value
Assign(d, value) ==
    LET o == ApplySet(Obj3(attrs, priv, handlers, "ok"), d, value) IN
    /\ attrs' = o.attrs
    /\ priv' = o.priv
    /\ handlers' = o.handlers
    /\ result' = Call("set", d.prop, value, HeldBefore(d), o.exc, <<>>)
    /\ UNCHANGED <<kind, childTag, childVisible>>
    /\ UNCHANGED <<flashVars, rendererVars>>

SetProperty ==
    \E d \in Props(kind) : \E value \in Dom(d.ty) :
        /\ d.prop \in touched \/ Cardinality(touched) < MaxProps
        /\ touched' = touched \cup {d.prop}
        /\ Assign(d, value)

BeforeUpdate ==
    /\ kind \in HasBeforeUpdate
    /\ LET r == before_update(kind, attrs, priv, childVisible) IN
       /\ attrs' = r.attrs
       /\ result' = Call("before_update", "", None, FALSE, r.exc, <<>>)
    /\ UNCHANGED <<kind, priv, handlers, childTag, childVisible, touched>>
    /\ UNCHANGED <<flashVars, rendererVars>>

BeforeBuildCommand ==
    /\ kind = "CupertinoTextField"
    /\ LET r == CupertinoTextField_before_build_command(attrs, priv) IN
       /\ attrs' = r.attrs
       /\ result' = Call("before_build_command", "", None, FALSE, r.exc, <<>>)
    /\ UNCHANGED <<kind, priv, handlers, childTag, childVisible, touched>>
    /\ UNCHANGED <<flashVars, rendererVars>>

\* the renderer reports the suggestion the user selected: its index arrives
\* as the text of the selectedIndex attribute
Select ==
    /\ kind = "AutoComplete"
    /\ \E i \in {0, 1} :
           /\ attrs' = set_attr(attrs, "selectedIndex", NumStr(10 * i))
           /\ result' = Call("select", "selected_index", Num(10 * i), FALSE,
                             "ok", <<>>)
    /\ UNCHANGED <<kind, priv, handlers, childTag, childVisible, touched>>
    /\ UNCHANGED <<flashVars, rendererVars>>

Next == SetProperty \/ BeforeUpdate \/ BeforeBuildCommand \/ Select

Spec == Init /\ [][Next]_vars

(***************************************************************************)
(* The control tree: a composite control built with any children, its      *)
(* slots reassigned, its children listed                                   *)
(***************************************************************************)
SlotArgs(k) ==
    {args \in [{d.prop : d \in Slots(k)} ->
                  UNION {Dom(d.ty) : d \in Slots(k)}] :
        \A d \in Slots(k) : args[d.prop] \in Dom(d.ty)}

InitTree == \E k \in Composite : \E args \in SlotArgs(k) : Constructed(k, args)

SetSlot ==
    \E d \in Slots(kind) : \E value \in Dom(d.ty) :
        /\ Assign(d, value)
        /\ UNCHANGED touched

GetChildren ==
    /\ kind \in Composite
    /\ LET r == get_children(kind, priv, childTag) IN
       /\ childTag' = r.tags
       /\ result' = Call("get_children", "", None, FALSE, r.exc, r.ret)
    /\ UNCHANGED <<kind, attrs, priv, handlers, childVisible, touched>>
    /\ UNCHANGED <<flashVars, rendererVars>>

\* child.visible = b
SetChildVisible ==
    \E c \in Children : \E b \in BOOLEAN :
        /\ childVisible' = [childVisible EXCEPT ![c] = b]
        /\ result' = Call("child_visible", "", IF b THEN True ELSE False, FALSE, "ok", <<c>>)
        /\ UNCHANGED <<kind, attrs, priv, handlers, childTag, touched>>
        /\ UNCHANGED <<flashVars, rendererVars>>

NextTree == SetSlot \/ GetChildren \/ BeforeUpdate \/ SetChildVisible

SpecTree == InitTree /\ [][NextTree]_vars

(***************************************************************************)
(* A Badge built with any content, its properties assigned, flattened and  *)
(* its children listed                                                     *)
(***************************************************************************)
InitBadge == \E args \in SlotArgs("Badge") : Constructed("Badge", args)

NextBadge == SetProperty \/ BeforeUpdate \/ GetChildren

SpecBadge == InitBadge /\ [][NextBadge]_vars

(***************************************************************************)
(* A SafeArea built with its content, its properties assigned, its content *)
(* shown or hidden, and flattened                                          *)
(***************************************************************************)
InitSafeArea ==
    \E args \in RequiredArgs("SafeArea") : Constructed("SafeArea", args)

NextSafeArea == SetProperty \/ SetChildVisible \/ BeforeUpdate

SpecSafeArea == InitSafeArea /\ [][NextSafeArea]_vars

(***************************************************************************)
(* The Flashlight: its blocking methods, each a single step, and its       *)
(* asynchronous methods, each a step up to the await and a step from it    *)
(***************************************************************************)
InitFlashlight ==
    /\ kind = "Flashlight"
    /\ attrs = NoAttrs
    /\ priv = NoAttrs
    /\ handlers = NoAttrs
    /\ childTag = [c \in Children |-> ""]
    /\ childVisible = [c \in Children |-> TRUE]
    /\ touched = {}
    /\ result = Call("init", "", None, FALSE, "ok", <<>>)
    /\ Flashlight_init
    /\ Renderer_init

\* the blocking method op, called with wait_timeout, its remote call
\* returning sr
Blocking(op, t, wait_timeout, sr) ==
    CASE op = "turn_on" -> turn_on(t, wait_timeout, sr)
      [] op = "turn_off" -> turn_off(t, wait_timeout, sr)
      [] op = "toggle" -> toggle(t, wait_timeout, sr)

\* the asynchronous method op, called with wait_timeout, up to its await
Awaiting(op, t, wait_timeout) ==
    CASE op = "turn_on_async" -> turn_on_async(op, wait_timeout)
      [] op = "turn_off_async" -> turn_off_async(op, wait_timeout)
      [] op = "toggle_async" -> toggle_async(t, wait_timeout)

\* the remote call of a method leaves flashlight f
Send(f, sent) ==
    /\ Len(invoked[f]) < MaxCalls
    /\ invoked' = [invoked EXCEPT ![f] = Append(@, sent)]

\* a method of flashlight f ends, the device having answered ans
Finish(f, op, ran, ans) ==
    /\ turned_on' = [turned_on EXCEPT ![f] = ran.turned_on]
    /\ torch' = [torch EXCEPT ![f] = ans.torch]
    /\ reply' = [reply EXCEPT ![f] = Reply(op, ans.sr, ran.ret, @.n + 1,
                                           LastOne(@, ran.sent, ans.sr))]

\* flashlight.<op>(wait_timeout), op a blocking method
CallBlocking(f, op) ==
    \E wait_timeout \in WaitTimeouts :
        LET sent == Blocking(op, turned_on[f], wait_timeout, None).sent IN
        \E ans \in Answers(sent.name, torch[f]) :
            /\ Send(f, sent)
            /\ Finish(f, op, Blocking(op, turned_on[f], wait_timeout, ans.sr), ans)
            /\ UNCHANGED inflight
            /\ UNCHANGED <<ctlVars, rendererVars>>

\* a task running flashlight.<op>(wait_timeout), op an asynchronous method,
\* reaches its await
CallAsync(f, op) ==
    \E wait_timeout \in WaitTimeouts :
        LET co == Awaiting(op, turned_on[f], wait_timeout) IN
        /\ Len(inflight) < MaxInflight
        /\ Send(f, co.sent)
        /\ inflight' = Append(inflight, [f |-> f, co |-> co])
        /\ UNCHANGED <<turned_on, torch, reply>>
        /\ UNCHANGED <<ctlVars, rendererVars>>

TurnOn == CallBlocking(1, "turn_on")
TurnOff == CallBlocking(1, "turn_off")
Toggle == CallBlocking(1, "toggle")
TurnOnAsync == CallAsync(1, "turn_on_async")
TurnOffAsync == CallAsync(1, "turn_off_async")
ToggleAsync == CallAsync(1, "toggle_async")

\* the result of a remote call arrives and the coroutine awaiting it runs on
Resume ==
    \E i \in 1..Len(inflight) :
        LET f == inflight[i].f
            co == inflight[i].co
        IN \E ans \in Answers(co.sent.name, torch[f]) :
               /\ Finish(f, co.op, resume(co, turned_on[f], ans.sr), ans)
               /\ inflight' = SubSeq(inflight, 1, i - 1)
                                 \o SubSeq(inflight, i + 1, Len(inflight))
               /\ UNCHANGED invoked
               /\ UNCHANGED <<ctlVars, rendererVars>>

NextFlashlight ==
    \/ TurnOn \/ TurnOff \/ Toggle
    \/ TurnOnAsync \/ TurnOffAsync \/ ToggleAsync
    \/ Resume

SpecFlashlight == InitFlashlight /\ [][NextFlashlight]_vars

(***************************************************************************)
(* Tasks toggling one Flashlight through toggle_async, every remote call   *)
(* returning "1"                                                           *)
(***************************************************************************)
ResumeSucceeded == Resume /\ reply'[1].sr = One

NextToggles == ToggleAsync \/ ResumeSucceeded

SpecToggles == InitFlashlight /\ [][NextToggles]_vars

(***************************************************************************)
(* Two Flashlights side by side: flashlight 1 is driven through the        *)
(* blocking methods, flashlight 2 through the asynchronous ones, each      *)
(* awaited to its end; their remote calls return the same results          *)
(***************************************************************************)
AsyncOf(op) ==
    CASE op = "turn_on" -> "turn_on_async"
      [] op = "turn_off" -> "turn_off_async"
      [] op = "toggle" -> "toggle_async"

SideBySide(op) ==
    \E wait_timeout \in WaitTimeouts :
        LET sent == Blocking(op, turned_on[1], wait_timeout, None).sent
            co == Awaiting(AsyncOf(op), turned_on[2], wait_timeout)
        IN \E ans1 \in Answers(sent.name, torch[1]) :
           \E ans2 \in Answers(co.sent.name, torch[2]) :
               LET ran1 == Blocking(op, turned_on[1], wait_timeout, ans1.sr)
                   ran2 == resume(co, turned_on[2], ans2.sr)
               IN /\ ans1.sr = ans2.sr
                  /\ Len(invoked[1]) < MaxCalls
                  /\ invoked' = [invoked EXCEPT ![1] = Append(@, sent),
                                                ![2] = Append(@, co.sent)]
                  /\ turned_on' = [turned_on EXCEPT ![1] = ran1.turned_on,
                                                    ![2] = ran2.turned_on]
                  /\ torch' = [torch EXCEPT ![1] = ans1.torch,
                                            ![2] = ans2.torch]
                  /\ reply' = [reply EXCEPT
                                  ![1] = Reply(op, ans1.sr, ran1.ret, @.n + 1,
                                               LastOne(@, sent, ans1.sr)),
                                  ![2] = Reply(AsyncOf(op), ans2.sr, ran2.ret,
                                               @.n + 1,
                                               LastOne(@, co.sent, ans2.sr))]
                  /\ UNCHANGED inflight
                  /\ UNCHANGED <<ctlVars, rendererVars>>

BothTurnOn == SideBySide("turn_on")
BothTurnOff == SideBySide("turn_off")
BothToggle == SideBySide("toggle")

NextSideBySide == BothTurnOn \/ BothTurnOff \/ BothToggle

SpecSideBySide == InitFlashlight /\ [][NextSideBySide]_vars

(***************************************************************************)
(* The renderer's filtering of the suggestions of an AutoComplete, as the  *)
(* docstring of AutoComplete.suggestions describes it: the user's input is *)
(* compared with the keys in lowercase.  A text is a sequence of letters.  *)
(***************************************************************************)
Letters == {"a", "A", "b"}

\* str.lower of one letter
LowerLetter(ch) ==
    CASE ch = "A" -> "a"
      [] ch = "B" -> "b"
      [] OTHER -> ch

\* str.lower
Lower(w) == [i \in 1..Len(w) |-> LowerLetter(w[i])]

\* the texts of at most MaxKeyLen letters
Words == SeqsUpTo(Letters, MaxKeyLen)

\* key contains input
Contains(key, input) ==
    \E i \in 0..(Len(key) - Len(input)) :
        SubSeq(key, i + 1, i + Len(input)) = input

\* the comparison as it would be were it not done in lowercase
Matches_CaseSensitive(key, input) == Contains(key, input)

\* the comparison of a key with the user's input, done in lowercase
Matches(key, input) == Contains(Lower(key), Lower(input))

\* the suggestions displayed for an input: those whose key matches, in order
RECURSIVE FilterFrom(_, _, _)
FilterFrom(keys, input, i) ==
    IF i > Len(keys) THEN <<>>
    ELSE (IF Matches(keys[i], input) THEN <<i>> ELSE <<>>)
             \o FilterFrom(keys, input, i + 1)

Filter(keys, input) == FilterFrom(keys, input, 1)

\* an AutoComplete shown by the renderer with any list of suggestions
InitFilter ==
    /\ kind = "AutoComplete"
    /\ attrs = NoAttrs
    /\ priv = NoAttrs
    /\ handlers = NoAttrs
    /\ childTag = [c \in Children |-> ""]
    /\ childVisible = [c \in Children |-> TRUE]
    /\ touched = {}
    /\ result = Call("init", "", None, FALSE, "ok", <<>>)
    /\ Flashlight_init
    /\ options \in SeqsUpTo(Words, 2)
    /\ typed = <<>>
    /\ shown = Filter(options, <<>>)

\* the user types a text; the renderer displays the suggestions it selects
Type ==
    \E input \in Words :
        /\ typed' = input
        /\ shown' = Filter(options, input)
        /\ UNCHANGED options
        /\ UNCHANGED <<ctlVars, flashVars>>

NextFilter == Type

SpecFilter == InitFilter /\ [][NextFilter]_vars

(***************************************************************************)
(* Properties                                                              *)
(***************************************************************************)
DescOf(k, prop) == CHOOSE d \in Props(k) : d.prop = prop

\* the property the last call assigned, read back now
ReadBack == Get(attrs, priv, handlers, DescOf(kind, result.prop))

\* the value a getter declaring data_type dt returns for an assigned value
Coerced(dt, value) ==
    CASE dt \in {"float", "int"} /\ value.t = "str" /\ value.c = "num" -> Num(value.v)
      [] dt = "bool" /\ value.t = "str" /\ value.c = "bool" ->
             IF value.v = 1 THEN True ELSE False
      [] OTHER -> value

AttrOrNone(a, name) == IF name \in DOMAIN a THEN a[name] ELSE None

\* C1: after a value other than None was assigned and accepted, reading the
\* property returns that value (numeric and bool text read back as float
\* and bool)
C1_RoundTrip ==
    (result.op = "set" /\ result.exc = "ok" /\ result.arg # None)
        => ReadBack = Ok(Coerced(DescOf(kind, result.prop).dt, result.arg))

\* C2: no attribute of the map is None, and a property whose setter writes an
\* attribute leaves that attribute absent once it is assigned None
C2_NoNoneAttribute ==
    /\ \A n \in DOMAIN attrs : attrs[n] # None
    /\ (result.op = "set" /\ result.exc = "ok" /\ result.arg = None
           /\ DescOf(kind, result.prop).set \in {"attr", "enum", "event"})
        => DescOf(kind, result.prop).attr \notin DOMAIN attrs

\* a value was stored for the name, then None was assigned
C2_Witness ==
    /\ result.op = "set" /\ result.exc = "ok" /\ result.arg = None /\ result.was
    /\ DescOf(kind, result.prop).set = "attr"
    /\ DescOf(kind, result.prop).attr \notin DOMAIN attrs

\* the optional structured properties of C3: class, private field, attribute
C3_Properties ==
    { <<"AppBar", "_AppBar__title_text_style", "titleTextStyle">>,
      <<"AppBar", "_AppBar__toolbar_text_style", "toolbarTextStyle">>,
      <<"AppBar", "_AppBar__shape", "shape">>,
      <<"Badge", "_Badge__padding", "padding">>,
      <<"Badge", "_Badge__text_style", "textStyle">>,
      <<"Card", "_Card__margin", "margin">>,
      <<"Card", "_Card__shape", "shape">> }

\* C3: once before_update has run, a structured property that is None has
\* no attribute in the map
C3_NoneRemovedByBeforeUpdate ==
    (result.op = "before_update" /\ result.exc = "ok")
        => \A p \in C3_Properties :
               (kind = p[1] /\ priv[p[2]] = None) => p[3] \notin DOMAIN attrs

\* the value a slot property reads as
Slot(prop) == Get(attrs, priv, handlers, DescOf(kind, prop)).val

\* C4: before_update of an AlertDialog with no title, no content and no
\* actions raises the AssertionError
C4_EmptyDialogAsserts ==
    (kind = "AlertDialog" /\ result.op = "before_update"
        /\ Slot("title") = None /\ Slot("content") = None
        /\ ~Truthy(Slot("actions")))
        => result.exc = "AssertionError"

\* C5: before_update of an AlertDialog with a title, a content or an action
\* completes without raising
C5_NonEmptyDialogPasses ==
    (kind = "AlertDialog" /\ result.op = "before_update"
        /\ (Slot("title") # None \/ Slot("content") # None
               \/ Truthy(Slot("actions"))))
        => result.exc = "ok"

OutOfUnitRange(value) == value # None /\ (value.v < 0 \/ value.v > 10)

\* C6: assigning AppBar.toolbar_opacity a value outside [0, 1] raises the
\* AssertionError and leaves the toolbarOpacity attribute as it was
C6_OutOfRangeRejected ==
    [][(kind = "AppBar" /\ result'.op = "set"
           /\ result'.prop = "toolbar_opacity" /\ OutOfUnitRange(result'.arg))
        => (result'.exc = "AssertionError"
               /\ AttrOrNone(attrs', "toolbarOpacity")
                    = AttrOrNone(attrs, "toolbarOpacity"))]_vars

C6_Witness ==
    /\ kind = "AppBar" /\ result.op = "set" /\ result.prop = "toolbar_opacity"
    /\ OutOfUnitRange(result.arg) /\ result.exc = "AssertionError"
    /\ "toolbarOpacity" \notin DOMAIN attrs

\* C7: AppBar.toolbar_opacity accepts every value of [0, 1], bounds
\* included, and reads it back
C7_UnitRangeAccepted ==
    (kind = "AppBar" /\ result.op = "set" /\ result.prop = "toolbar_opacity"
        /\ result.arg # None /\ ~OutOfUnitRange(result.arg))
        => (result.exc = "ok" /\ ReadBack = Ok(result.arg))

\* the children a control holds: its slots as its properties read them
SlotChildren(prop) ==
    LET x == Slot(prop) IN
    CASE x.t = "ctl" -> <<x.v>>
      [] x.t = "list" -> x.l
      [] OTHER -> <<>>

Elements(q) == {q[i] : i \in 1..Len(q)}

\* C8: _get_children returns, without raising, a list holding exactly the
\* children of the slots that are not None
C8_ChildrenExcludeNone ==
    result.op = "get_children"
        => /\ result.exc = "ok"
           /\ Elements(result.ret) =
                 UNION {Elements(SlotChildren(d.prop)) : d \in Slots(kind)}

\* C9: with a list of actions assigned, AppBar lists leading, title and the
\* actions in order, AlertDialog title, icon, content and the actions in
\* order (the icon is a plain attribute that no property assigns to the
\* field _get_children reads, so it contributes no child)
C9_ChildrenInOrder ==
    (result.op = "get_children" /\ kind \in {"AppBar", "AlertDialog"}
        /\ Slot("actions").t = "list")
        => /\ result.exc = "ok"
           /\ result.ret =
                 IF kind = "AppBar"
                 THEN SlotChildren("leading") \o SlotChildren("title")
                          \o SlotChildren("actions")
                 ELSE SlotChildren("title") \o SlotChildren("content")
                          \o SlotChildren("actions")

\* the property reads dflt whenever its attribute is absent
ReadsDefault(k, prop, attr, dflt) ==
    (kind = k /\ attr \notin DOMAIN attrs)
        => Get(attrs, priv, handlers, DescOf(k, prop)) = Ok(dflt)

\* C10: a property declaring a default reads that default whenever its
\* attribute is absent
C10_DefaultsWhenAbsent ==
    /\ ReadsDefault("AlertDialog", "open", "open", False)
    /\ ReadsDefault("AlertDialog", "modal", "modal", False)
    /\ ReadsDefault("AppBar", "toolbar_opacity", "toolbarOpacity", Num(10))
    /\ ReadsDefault("AppBar", "automatically_imply_leading",
                    "automaticallyImplyLeading", True)
    /\ ReadsDefault("AutoComplete", "suggestions_max_height",
                    "suggestionsMaxHeight", Num(2000))
    /\ ReadsDefault("Badge", "label_visible", "isLabelVisible", True)
    /\ ReadsDefault("SafeArea", "left", "left", True)
    /\ ReadsDefault("SafeArea", "top", "top", True)
    /\ ReadsDefault("SafeArea", "right", "right", True)
    /\ ReadsDefault("SafeArea", "bottom", "bottom", True)

\* label_visible was False, was assigned None, and reads True again
C10_Witness ==
    /\ kind = "Badge" /\ result.op = "set" /\ result.prop = "label_visible"
    /\ result.arg = None /\ result.was /\ result.exc = "ok"
    /\ "isLabelVisible" \notin DOMAIN attrs
    /\ ReadBack = Ok(True)

\* C11: when the remote call of a Flashlight method returns anything but
\* "1", the method leaves turned_on as it was and returns that value
C11_FailedCallChangesNothing ==
    [][(reply'[1].n # reply[1].n /\ reply'[1].sr # One)
        => (turned_on'[1] = turned_on[1] /\ reply'[1].ret = turned_on[1])]_vars

\* turn_off timed out on a flashlight that was on, and it is still on
C11_Witness ==
    /\ reply[1].op \in {"turn_off", "turn_off_async", "toggle", "toggle_async"}
    /\ reply[1].sr = None
    /\ Len(invoked[1]) > 0 /\ invoked[1][Len(invoked[1])].name = "off"
    /\ inflight = <<>>
    /\ turned_on[1] /\ reply[1].ret

\* C12: the blocking methods and their asynchronous counterparts, run side by
\* side on the same remote results, send the same remote calls with the same
\* arguments, leave the same turned_on and return the same value
C12_BlockingAndAsyncAgree ==
    /\ invoked[1] = invoked[2]
    /\ turned_on[1] = turned_on[2]
    /\ reply[1].ret = reply[2].ret

\* both flashlights were on and toggle, toggle_async turned them off
C12_Witness ==
    /\ reply[1].op = "toggle" /\ reply[2].op = "toggle_async"
    /\ reply[1].sr = One /\ reply[2].sr = One
    /\ Len(invoked[2]) > 1 /\ invoked[2][Len(invoked[2])].name = "off"
    /\ ~turned_on[1] /\ ~turned_on[2]

\* the attribute holds the JSON document of the structured value x
HoldsJsonOf(name, x) ==
    /\ name \in DOMAIN attrs
    /\ attrs[name].t = "json"
    /\ attrs[name].c = x.c /\ attrs[name].v = x.v /\ attrs[name].l = x.l

\* the structured properties of CupertinoTextField: private field, attribute
C13_Properties ==
    { <<"_CupertinoTextField__gradient", "gradient">>,
      <<"_CupertinoTextField__shadow", "shadow">>,
      <<"_CupertinoTextField__placeholder_style", "placeholderStyle">> }

\* C13: once the hook run before transmission has run on a
\* CupertinoTextField, the attributes gradient, shadow and placeholderStyle
\* hold the JSON documents of the gradient, shadow and placeholder_style
\* that are set
C13_CupertinoFlattened ==
    (kind = "CupertinoTextField" /\ result.op = "before_build_command")
        => /\ result.exc = "ok"
           /\ \A p \in C13_Properties :
                  Truthy(priv[p[1]]) => HoldsJsonOf(p[2], priv[p[1]])

\* a list of one BoxShadow was assigned to shadow and the hook has run
C13_Witness ==
    /\ kind = "CupertinoTextField" /\ result.op = "before_build_command"
    /\ priv["_CupertinoTextField__shadow"] = List("BoxShadow", <<1>>)
    /\ HoldsJsonOf("shadow", List("BoxShadow", <<1>>))

\* text is None: it was never assigned, or None was assigned to it last
NoText ==
    \/ "text" \notin touched
    \/ (result.op = "set" /\ result.prop = "text" /\ result.arg = None)

\* C14: a Badge with a content and no text has no labelText attribute, and
\* _get_children returns its content alone, tagged "content", whatever was
\* assigned to its other properties
C14_BadgeContentOnly ==
    (kind = "Badge" /\ Slot("content") # None /\ NoText)
        => /\ "labelText" \notin DOMAIN attrs
           /\ result.op = "get_children"
                 => /\ result.exc = "ok"
                    /\ result.ret = <<Slot("content").v>>
                    /\ childTag[Slot("content").v] = "content"

\* a Badge built with content 1 had another property assigned, then listed
\* its children
C14_Witness ==
    /\ kind = "Badge" /\ Slot("content") = Ctl(1)
    /\ touched # {} /\ "text" \notin touched /\ "content" \notin touched
    /\ result.op = "get_children" /\ result.ret = <<1>>
    /\ childTag[1] = "content" /\ "labelText" \notin DOMAIN attrs

\* the fields ConstrainedControl.before_update flattens, with their attributes
C15_Constrained ==
    { <<"_ConstrainedControl__rotate", "rotate">>,
      <<"_ConstrainedControl__scale", "scale">>,
      <<"_ConstrainedControl__offset", "offset">>,
      <<"_ConstrainedControl__animate_opacity", "animateOpacity">>,
      <<"_ConstrainedControl__animate_size", "animateSize">>,
      <<"_ConstrainedControl__animate_position", "animatePosition">>,
      <<"_ConstrainedControl__animate_rotation", "animateRotation">>,
      <<"_ConstrainedControl__animate_scale", "animateScale">>,
      <<"_ConstrainedControl__animate_offset", "animateOffset">> }

\* the fields before_update flattens, by class
C15_Flattened(k) ==
    CASE k = "ConstrainedControl" -> C15_Constrained
      [] k = "AppBar" ->
             { <<"_AppBar__title_text_style", "titleTextStyle">>,
               <<"_AppBar__toolbar_text_style", "toolbarTextStyle">>,
               <<"_AppBar__shape", "shape">> }
      [] k = "Badge" ->
             { <<"_Badge__offset", "offset">>,
               <<"_Badge__alignment", "alignment">>,
               <<"_Badge__padding", "padding">>,
               <<"_Badge__text_style", "textStyle">> }
      [] k = "BottomAppBar" ->
             C15_Constrained \cup { <<"_BottomAppBar__padding", "padding">> }
      [] k = "Card" ->
             C15_Constrained \cup { <<"_Card__margin", "margin">>,
                                    <<"_Card__shape", "shape">> }
      [] k = "AutoComplete" ->
             { <<"_AutoComplete__suggestions", "suggestions">> }
      [] OTHER -> {}

\* C15: before_update called again right after before_update leaves the
\* attribute map as it is, and a before_update flattening a field that is
\* None leaves an absent attribute absent
C15_FlatteningIdempotent ==
    [][(result'.op = "before_update" /\ C15_Flattened(kind) # {})
        => /\ result.op = "before_update" => attrs' = attrs
           /\ \A p \in C15_Flattened(kind) :
                  (priv[p[1]] = None /\ p[2] \notin DOMAIN attrs)
                      => p[2] \notin DOMAIN attrs']_vars

\* before_update has flattened a margin into the map of a Card, whose shape
\* is None and absent: the state a second before_update starts from
C15_Witness ==
    /\ kind = "Card" /\ result.op = "before_update" /\ result.exc = "ok"
    /\ priv["_Card__margin"] = Obj("Margin", 1)
    /\ HoldsJsonOf("margin", Obj("Margin", 1))
    /\ priv["_Card__shape"] = None /\ "shape" \notin DOMAIN attrs

\* the properties holding a structured value
Structured(d) == d.ty \in NumberOrObject \cup ObjectOnly \cup {"suggestions"}

\* C16: before_update leaves what every structured-property getter returns
\* as it was immediately before the call
C16_SourceValuesUntouched ==
    [][(result'.op = "before_update"
           /\ kind \in {"ConstrainedControl", "Badge", "Card", "BottomAppBar",
                        "AutoComplete"})
        => \A d \in Props(kind) :
               Structured(d)
                   => Get(attrs', priv', handlers', d)
                          = Get(attrs, priv, handlers, d)]_vars

\* a Badge whose padding was flattened still reads the Padding it was given
C16_Witness ==
    /\ kind = "Badge" /\ result.op = "before_update" /\ result.exc = "ok"
    /\ Get(attrs, priv, handlers, DescOf("Badge", "padding"))
          = Ok(Obj("Padding", 1))
    /\ HoldsJsonOf("padding", Obj("Padding", 1))

\* C17: the elevation attribute of a Card is never negative, a negative
\* value assigned to elevation being refused
C17_CardElevationNonNegative ==
    kind = "Card"
        => /\ "elevation" \in DOMAIN attrs => attrs["elevation"].v >= 0
           /\ (result.op = "set" /\ result.prop = "elevation"
                  /\ result.arg # None /\ result.arg.v < 0)
                 => result.exc = "AssertionError"

\* the properties whose setter asserts value >= 0: class, property, attribute
C18_Properties ==
    { <<"BottomAppBar", "elevation", "elevation">>,
      <<"AutoComplete", "suggestions_max_height", "suggestionsMaxHeight">> }

\* C18: a negative value assigned to BottomAppBar.elevation or to
\* AutoComplete.suggestions_max_height raises the AssertionError and leaves
\* the attribute as it was; None, 0 and every positive value are stored
C18_NegativeRejected ==
    [][\A p \in C18_Properties :
          (kind = p[1] /\ result'.op = "set" /\ result'.prop = p[2]
              /\ result' # result)
              => IF result'.arg # None /\ result'.arg.v < 0
                 THEN /\ result'.exc = "AssertionError"
                      /\ AttrOrNone(attrs', p[3]) = AttrOrNone(attrs, p[3])
                 ELSE /\ result'.exc = "ok"
                      /\ AttrOrNone(attrs', p[3]) = result'.arg]_vars

\* -1.0 was refused by a BottomAppBar whose elevation is 0.5, and still is
C18_Witness ==
    /\ kind = "BottomAppBar" /\ result.op = "set" /\ result.prop = "elevation"
    /\ result.arg = Num(-10) /\ result.exc = "AssertionError"
    /\ AttrOrNone(attrs, "elevation") = Num(5)

\* what AutoComplete.selected_index reads
SelectedIndex(a, pv, h) == Get(a, pv, h, DescOf("AutoComplete", "selected_index"))

\* C19: AutoComplete.selected_index reads None from construction on, cannot
\* be assigned, and changes only when a suggestion is selected
C19_SelectedIndexReadOnly ==
    /\ kind = "AutoComplete" => SelectedIndex(attrs, priv, handlers) = Ok(None)
    /\ [][(kind = "AutoComplete" /\ result'.op # "select")
            => /\ SelectedIndex(attrs', priv', handlers')
                     = SelectedIndex(attrs, priv, handlers)
               /\ (result'.op = "set" /\ result'.prop = "selected_index")
                     => result'.exc = "AttributeError"]_vars

\* selected_index was assigned, the assignment was refused, and it reads None
C19_Witness ==
    /\ kind = "AutoComplete"
    /\ result.op = "set" /\ result.prop = "selected_index"
    /\ result.arg # None /\ result.exc = "AttributeError"
    /\ SelectedIndex(attrs, priv, handlers) = Ok(None)

\* the suggestions of q that carry a key or a value, in order
RECURSIVE WithKeyOrValue(_)
WithKeyOrValue(q) ==
    IF q = <<>> THEN <<>>
    ELSE IF Head(q) = 0 THEN WithKeyOrValue(Tail(q))
         ELSE <<Head(q)>> \o WithKeyOrValue(Tail(q))

\* C20: the suggestions attribute written by AutoComplete.before_update
\* lists the suggestions that carry a key or a value, in order, and no
\* suggestion that carries neither
C20_EmptySuggestionDropped ==
    (kind = "AutoComplete" /\ result.op = "before_update")
        => /\ result.exc = "ok"
           /\ "suggestions" \in DOMAIN attrs
           /\ attrs["suggestions"].l
                 = WithKeyOrValue(priv["_AutoComplete__suggestions"].l)

C22_TurnedOnIsTorch ==
    inflight = <<>> => turned_on[1] = torch[1]

\* C23: once the toggle_async calls in flight have completed, every remote
\* call having returned "1", turned_on is the negation of its initial value
\* (False) exactly when an odd number of toggles completed
C23_EachToggleFlipsOnce ==
    inflight = <<>> => (turned_on[1] <=> reply[1].n % 2 = 1)

\* C24: turned_on is a boolean, True exactly when the most recent remote call
\* that returned "1" was an "on" call, and every completed operation returned
\* the turned_on it left
C24_TurnedOnFollowsLastSuccess ==
    /\ turned_on[1] \in BOOLEAN
    /\ turned_on[1] <=> reply[1].one = "on"
    /\ reply[1].n > 0 => reply[1].ret = turned_on[1]

\* "on" then "off" returned "1", a third call failed: turned_on is False
C24_Witness ==
    /\ reply[1].n = 3 /\ reply[1].sr # One /\ reply[1].one = "off"
    /\ invoked[1][1].name = "on"
    /\ ~turned_on[1] /\ inflight = <<>>

\* the last remote call flashlight f has made
LastInvoked(log) == log[Len(log)]

\* C25: a toggle (toggle, or toggle_async awaited to its end) makes exactly
\* one remote call, "off" when turned_on is True at the call and "on"
\* otherwise; when the call returns "1" turned_on is negated, and a second
\* successful toggle in succession restores the turned_on the first started
\* from
C25_ToggleNegates ==
    [][\A f \in Flashlights :
          (reply'[f].n # reply[f].n /\ reply'[f].op \in {"toggle", "toggle_async"})
              => /\ Len(invoked'[f]) = Len(invoked[f]) + 1
                 /\ SubSeq(invoked'[f], 1, Len(invoked[f])) = invoked[f]
                 /\ LastInvoked(invoked'[f]).name
                       = IF turned_on[f] THEN "off" ELSE "on"
                 /\ reply'[f].sr = One => turned_on'[f] = ~turned_on[f]
                 /\ (reply'[f].sr = One /\ reply[f].sr = One
                        /\ reply[f].op \in {"toggle", "toggle_async"})
                       => turned_on'[f] = (LastInvoked(invoked[f]).name = "off")
      ]_vars

\* toggle and toggle_async have turned a lit flashlight off, calling "off"
C25_Witness ==
    /\ reply[1].op = "toggle" /\ reply[2].op = "toggle_async"
    /\ reply[1].sr = One /\ reply[1].n = 2
    /\ invoked[1][1].name = "on" /\ invoked[1][2].name = "off"
    /\ invoked[2][1].name = "on" /\ invoked[2][2].name = "off"
    /\ ~turned_on[1] /\ ~turned_on[2]

\* C26: a before_update that fails leaves the attribute map as it was before
\* the call
C26_FailedUpdateWritesNothing ==
    [][(result'.op = "before_update" /\ result'.exc # "ok") => attrs' = attrs]_vars

\* C29: SafeArea.before_update raises the AssertionError when its content is
\* not visible and completes when it is
C29_InvisibleContentRejected ==
    (kind = "SafeArea" /\ result.op = "before_update")
        => result.exc = IF childVisible[Slot("content").v]
                        THEN "ok" ELSE "AssertionError"

\* the content was hidden and before_update raised
C29_Witness ==
    /\ kind = "SafeArea" /\ result.op = "before_update"
    /\ ~childVisible[Slot("content").v]
    /\ result.exc = "AssertionError"

\* the role of every child of a slot: one tag per child
Roles(prop, role) == [i \in 1..Len(SlotChildren(prop)) |-> role]

\* the roles of the children a control lists, in the order it lists them
SlotRoles ==
    CASE kind = "AppBar" ->
             Roles("leading", "leading") \o Roles("title", "title")
                 \o Roles("actions", "action")
      [] kind = "AlertDialog" ->
             Roles("title", "title") \o Roles("icon", "icon")
                 \o Roles("content", "content") \o Roles("actions", "action")
      [] OTHER -> Roles("content", "content")

\* C27: every child _get_children returns carries, as its "n" tag, the role
\* of the slot it was taken from, one control being possibly assigned to two
\* slots
C27_TagIsSlotRole ==
    (result.op = "get_children" /\ result.exc = "ok")
        => /\ Len(result.ret) = Len(SlotRoles)
           /\ \A i \in 1..Len(result.ret) :
                  childTag[result.ret[i]] = SlotRoles[i]

\* C28: _get_children of an AppBar whose actions is None returns, without
\* raising, its leading and its title
C28_NoActionsSerializes ==
    (kind = "AppBar" /\ result.op = "get_children" /\ Slot("actions") = None)
        => /\ result.exc = "ok"
           /\ result.ret = SlotChildren("leading") \o SlotChildren("title")

\* the classes inheriting on_animation_end
C30_Classes == {"ConstrainedControl", "BottomAppBar", "Card", "SafeArea"}

\* C30: onAnimationEnd is in the map, as True, exactly when the handler
\* registered for animation_end is not None, and on_animation_end reads the
\* handler assigned last
C30_AnimationEndFlag ==
    kind \in C30_Classes
        => /\ "onAnimationEnd" \in DOMAIN attrs
                 <=> get_event_handler(handlers, "animation_end") # None
           /\ "onAnimationEnd" \in DOMAIN attrs => attrs["onAnimationEnd"] = True
           /\ (result.op = "set" /\ result.prop = "on_animation_end")
                 => (result.exc = "ok" /\ ReadBack = Ok(result.arg))

\* a Card whose handler was set has it set to None: the flag is gone
C30_Witness ==
    /\ kind = "Card" /\ result.op = "set" /\ result.prop = "on_animation_end"
    /\ result.arg = None /\ result.was /\ result.exc = "ok"
    /\ "onAnimationEnd" \notin DOMAIN attrs
    /\ ReadBack = Ok(None)

====
